---- MODULE Spec2Model ----
(***************************************************************************)
(* The age-bucket aggregation of vectorization07.ipynb (part 7,            *)
(* aggregation functions) in its library variants task_pandas,             *)
(* task_polars, task_sqlalchemy and task_sql, together with the bucket     *)
(* expressions the variants use.                                           *)
(*                                                                         *)
(* Numbers: an age and a bucket are held in thousandths (5.0 is 5000), so  *)
(* that age + 4.999 is exact.  For every age with up to three decimals in  *)
(* [0, 120] the IEEE double computation of the notebook and this exact     *)
(* computation round to the same bucket.  A mean is held as a reduced      *)
(* fraction <<numerator, denominator>>.                                    *)
(*                                                                         *)
(* Nullable values: NULL is the empty tuple, a present value v is <<v>>.   *)
(* pandas' NaN and the SQL / polars null are both NULL.                    *)
(*                                                                         *)
(* Further the cells of vectorization01.ipynb (a row loop and its          *)
(* vectorized form) and of vectorization02.ipynb (a conditional as a loop, *)
(* as np.where and as a filtered assignment), on a dataframe with the      *)
(* columns int_col and str_col.  The int64 of the dataframe is scaled down *)
(* to IntBits bits: same two's complement wrap-around, smaller range.      *)
(*                                                                         *)
(* Further the flows that get_pipeline builds in vectorization04.ipynb     *)
(* (part 4) and vectorization07.ipynb (part 7), run by flow.run() under    *)
(* pipedag.yaml: sequential engine, fail_fast, stage commit, task cache.   *)
(* The content of a table is abstract but for the four tables of           *)
(* split_train_test, which are given by the set of ids of the test rows.   *)
(***************************************************************************)
EXTENDS Integers, Sequences, FiniteSets

VARIABLES
    columns,     \* the column names of the input table titanic
    titanic,     \* the input rows, a sequence of [age, survived]
    task,        \* the task that ran last ("none" before the first run)
    age_bucket,  \* the age_bucket column the task derived, one entry per row
    result,      \* the rows the task returned
    error,       \* the exception the task raised ("none" when it returned)
    age,         \* the age the bucket expressions are evaluated on
    bucket,      \* per evaluated expression, the bucket it gave for age
    library,     \* what the installed library releases do where releases differ
    df,          \* the dataframe of the notebooks: column name -> values by row
    cell,        \* the notebook cell that ran last, or the one in progress
    pos,         \* the number of rows the loop of the cell has visited
    out,         \* the series the row loop fills
    out2,        \* the result of the vectorized / np.where translation
    out3,        \* the result of the filtering translation
    raised,      \* the exception a cell raised ("none" if none)
    evaluated,   \* the rows on which the cell evaluated int_col ** power
    flow,        \* the flow of get_pipeline: "part4", "part7" ("none": no flow)
    train_rows,  \* the number of rows of train.csv.gz, with ids 1..train_rows
    versions,    \* per task, the revision of its code (version or query text)
    pc,          \* the position in flow.tasks of the entry to run next (0: no run)
    task_state,  \* per entry of flow.tasks, its state in the current run
    staged,      \* per task, what it wrote to the schema of the open transaction
    cache,       \* per task, what is committed in the table store
    log,         \* the events of the current run, in order
    flow_result, \* how the last flow.run() ended ("none" while there is none)
    history      \* per flow.run() so far: empty cache at start, and the split

vars == <<columns, titanic, task, age_bucket, result, error, age, bucket, library,
          df, cell, pos, out, out2, out3, raised, evaluated,
          flow, train_rows, versions, pc, task_state, staged, cache, log,
          flow_result, history>>

aggVars == <<columns, titanic, task, age_bucket, result, error>>
exprVars == <<age, bucket>>

envVars == <<library>>

nbVars == <<df, cell, pos, out, out2, out3, raised, evaluated>>

flowVars == <<flow, train_rows, versions, pc, task_state, staged, cache, log,
              flow_result, history>>

\* no flow is defined: the state of the flow variables outside flow.run()
NoFlow ==
    /\ flow = "none"
    /\ train_rows = 0
    /\ versions = <<>>
    /\ pc = 0
    /\ task_state = <<>>
    /\ staged = <<>>
    /\ cache = <<>>
    /\ log = <<>>
    /\ flow_result = "none"
    /\ history = <<>>

\* no notebook is open: the state of the notebook variables while the
\* aggregation runs
NotebookClosed ==
    /\ df = [int_col |-> <<>>, str_col |-> <<>>]
    /\ cell = "closed"
    /\ pos = 0
    /\ out = <<>>
    /\ out2 = <<>>
    /\ out3 = <<>>
    /\ raised = "none"
    /\ evaluated = {}

----------------------------------------------------------------------------
(* Bounds and input domains *)

MaxRows == 3

MaxAge == 25001

MaxInstalledRows == 2

MaxCentiAge == 12000

MaxDfRows == 3

IntBits == 6

\* the number of flow.run() calls in a session
MaxRuns == 2

\* the number of rows of train.csv.gz
MaxTrainRows == 2

\* 5 and 25 (the spec's example), and 20.001, where age + 4.999 = 25 is a tie
Ages == {5000, 20001, 25000}

\* 0 / 1 indicators, and 2 as a value outside the indicator range
SurvivedValues == {0, 1, 2}

----------------------------------------------------------------------------
(* Nullable values *)

NULL == <<>>

Some(v) == <<v>>

Val(x) == x[1]

IsNull(x) == x = NULL

Milli(n) == n * 1000

\* faulty variant: the offset is a full 5, so that every integer age that is a
\* multiple of 10 is a tie
OffsetFive == Milli(5)

\* the literal 4.999 of every variant, in thousandths
Offset == 4999

----------------------------------------------------------------------------
(* Rounding primitives of the libraries: num / den rounded to an integer *)

\* numpy rint, used by Series.round: ties go to the even integer
RoundHalfEven(num, den) ==
    LET q == num \div den
        r == num % den
    IN  IF 2 * r > den \/ (2 * r = den /\ q % 2 = 1) THEN q + 1 ELSE q

\* Rust f64::round (polars) and C std::round (DuckDB): ties go away from zero
RoundHalfAway(num, den) ==
    IF num >= 0
    THEN (2 * num + den) \div (2 * den)
    ELSE -((2 * (-num) + den) \div (2 * den))

----------------------------------------------------------------------------
(* The age_bucket expression of each variant, on a nullable age *)

\* faulty variant: the offset forgotten, titanic.age.round(-1)
PandasAgeBucketNoOffset(a) ==
    IF IsNull(a) THEN NULL
    ELSE Some(RoundHalfEven(Val(a), Milli(10)) * Milli(10))

\* (titanic.age + 4.999).round(-1): numpy rounds x to rint(x / 10) * 10; NaN stays NaN
PandasAgeBucket(a) ==
    IF IsNull(a) THEN NULL
    ELSE Some(RoundHalfEven(Val(a) + Offset, Milli(10)) * Milli(10))

\* faulty variant: the quotient truncated instead of rounded
PolarsAgeBucketTruncating(a) ==
    IF IsNull(a) THEN NULL
    ELSE Some(((Val(a) + Offset) \div Milli(10)) * Milli(10))

\* ((pl.col("age") + 4.999) / 10).round() * 10: null propagates
PolarsAgeBucket(a) ==
    IF IsNull(a) THEN NULL
    ELSE Some(RoundHalfAway(Val(a) + Offset, Milli(10)) * Milli(10))

\* sa.func.round(titanic.c.age + 4.999, -1): DuckDB rounds x to round(x / 10) * 10
SqlalchemyAgeBucket(a) ==
    IF IsNull(a) THEN NULL
    ELSE Some(RoundHalfAway(Val(a) + Offset, Milli(10)) * Milli(10))

\* faulty variant: the offset written as 5
SqlAgeBucketOffsetFive(a) ==
    IF IsNull(a) THEN NULL
    ELSE Some(RoundHalfAway(Val(a) + Milli(5), Milli(10)) * Milli(10))

\* round((titanic.age + 4.999) / CAST(10 AS NUMERIC)) * 10
SqlAgeBucket(a) ==
    IF IsNull(a) THEN NULL
    ELSE Some(RoundHalfAway(Val(a) + Offset, Milli(10)) * Milli(10))

\* round(λ.age + 4.999, -1) on the pandas backend: Series.round(-1)
TransformDfAgeBucket(a) ==
    IF IsNull(a) THEN NULL
    ELSE Some(RoundHalfEven(Val(a) + Offset, Milli(10)) * Milli(10))

\* faulty variant: no offset, the age is rounded to the nearest multiple of 10
TransformSqlAgeBucketNearest(a) ==
    IF IsNull(a) THEN NULL
    ELSE Some(RoundHalfAway(Val(a), Milli(10)) * Milli(10))

\* round(λ.age + 4.999, -1) on the SQL backend: ROUND(age + 4.999, -1)
TransformSqlAgeBucket(a) ==
    IF IsNull(a) THEN NULL
    ELSE Some(RoundHalfAway(Val(a) + Offset, Milli(10)) * Milli(10))

\* (col.age + ibis.literal(4.999, "decimal")).round(-1), compiled to SQL ROUND
IbisAgeBucket(a) ==
    IF IsNull(a) THEN NULL
    ELSE Some(RoundHalfAway(Val(a) + Offset, Milli(10)) * Milli(10))

----------------------------------------------------------------------------
(* Column and aggregate helpers *)

\* the age_bucket column each variant derives from the age column
PandasAgeBucketColumn(rows) == [i \in 1..Len(rows) |-> PandasAgeBucket(rows[i].age)]

PolarsAgeBucketColumn(rows) == [i \in 1..Len(rows) |-> PolarsAgeBucket(rows[i].age)]

SqlalchemyAgeBucketColumn(rows) == [i \in 1..Len(rows) |-> SqlalchemyAgeBucket(rows[i].age)]

SqlAgeBucketColumn(rows) == [i \in 1..Len(rows) |-> SqlAgeBucket(rows[i].age)]

SurvivedColumn(rows) == [i \in 1..Len(rows) |-> rows[i].survived]

\* the indices of the rows of one group: the rows whose key equals k
GroupIndices(keys, k) == {i \in 1..Len(keys) : keys[i] = k}

RECURSIVE SumOver(_, _)
SumOver(vals, idx) ==
    IF idx = {} THEN 0
    ELSE LET i == CHOOSE j \in idx : TRUE
         IN  Val(vals[i]) + SumOver(vals, idx \ {i})

RECURSIVE GCD(_, _)
GCD(a, b) == IF b = 0 THEN a ELSE GCD(b, a % b)

Fraction(num, den) == LET g == GCD(num, den) IN <<num \div g, den \div g>>

\* count(x): the number of non-null entries of a column within a group
CountNonNull(vals, idx) == Cardinality({i \in idx : ~IsNull(vals[i])})

\* count including nulls: the number of entries of a column within a group
CountAll(vals, idx) == Cardinality(idx)

\* faulty variant: a null entry counted as 0 in the mean
MeanNullAsZero(vals, idx) ==
    LET present == {i \in idx : ~IsNull(vals[i])}
    IN  IF idx = {} THEN NULL
        ELSE Some(Fraction(SumOver(vals, present), Cardinality(idx)))

\* mean / AVG: over the non-null entries; null when there is none
Mean(vals, idx) ==
    LET present == {i \in idx : ~IsNull(vals[i])}
    IN  IF present = {} THEN NULL
        ELSE Some(Fraction(SumOver(vals, present), Cardinality(present)))

\* a before b in ascending order of age_bucket, nulls where nullsLast says
Before(a, b, nullsLast) ==
    IF IsNull(a.age_bucket) THEN ~nullsLast /\ ~IsNull(b.age_bucket)
    ELSE IF IsNull(b.age_bucket) THEN nullsLast
    ELSE Val(a.age_bucket) < Val(b.age_bucket)

\* the rows of a grouped table (one row per key) in sorted order
RECURSIVE SortRows(_, _)
SortRows(rows, nullsLast) ==
    IF rows = {} THEN <<>>
    ELSE LET first == CHOOSE r \in rows :
                          \A o \in rows \ {r} : Before(r, o, nullsLast)
         IN  <<first>> \o SortRows(rows \ {first}, nullsLast)

Range(s) == {s[i] : i \in 1..Len(s)}

----------------------------------------------------------------------------
(* Grouping *)

\* DataFrame.groupby("age_bucket"): dropna defaults to True, NaN keys are dropped
PandasGroupKeys(keys) == {k \in Range(keys) : ~IsNull(k)}

\* faulty variant: the null group is emitted whether or not a row belongs to it
PolarsGroupKeysWithNull(keys) == Range(keys) \cup {NULL}

\* polars groupby and SQL GROUP BY: null is a key of its own
PolarsGroupKeys(keys) == Range(keys)

\* faulty variant: the rows with a null key filtered out before grouping
SqlGroupKeysNotNull(keys) == {k \in Range(keys) : ~IsNull(k)}

SqlGroupKeys(keys) == Range(keys)

\* faulty variant: samples=("age_bucket", "nunique")
PandasSamplesNunique(keys, idx) == Cardinality({keys[i] : i \in idx} \ {NULL})

\* samples=("age_bucket", "count"): the non-NaN entries of the group
PandasSamples(keys, idx) == CountNonNull(keys, idx)

\* pl.col("age_bucket").count(): the entries of the group; whether null entries
\* are counted depends on the polars release (countNulls)
PolarsSamples(keys, idx, countNulls) ==
    IF countNulls THEN CountAll(keys, idx) ELSE CountNonNull(keys, idx)

\* faulty variant: count(*)
SqlSamplesCountStar(keys, idx) == CountAll(keys, idx)

\* count(age_bucket) in SQL: the non-null entries of the group
SqlSamples(keys, idx) == CountNonNull(keys, idx)

----------------------------------------------------------------------------
(* The tasks, as functions of the input rows *)

\* assign / groupby / agg / sort_values (ascending, na_position "last")
task_pandas_rows(rows) ==
    LET keys     == PandasAgeBucketColumn(rows)
        survived == SurvivedColumn(rows)
        grouped  == {[age_bucket |-> k,
                      samples |-> PandasSamples(keys, GroupIndices(keys, k)),
                      survival_likelyhood |-> Mean(survived, GroupIndices(keys, k))]
                     : k \in PandasGroupKeys(keys)}
    IN  SortRows(grouped, TRUE)

\* with_columns / groupby / agg / sort (nulls_last defaults to False)
task_polars_rows(rows, countNulls) ==
    LET keys     == PolarsAgeBucketColumn(rows)
        survived == SurvivedColumn(rows)
        grouped  == {[age_bucket |-> k,
                      samples |-> PolarsSamples(keys, GroupIndices(keys, k), countNulls),
                      survival_likelyhood |-> Mean(survived, GroupIndices(keys, k))]
                     : k \in PolarsGroupKeys(keys)}
    IN  SortRows(grouped, FALSE)

\* faulty variant: the mean without .label("survival_likelyhood"), the column
\* gets the name the database derives from the expression
task_sqlalchemy_rows_unlabelled(rows, nullsLast) ==
    LET keys     == SqlalchemyAgeBucketColumn(rows)
        survived == SurvivedColumn(rows)
        grouped  == {[age_bucket |-> k,
                      samples |-> SqlSamples(keys, GroupIndices(keys, k)),
                      avg_1 |-> Mean(survived, GroupIndices(keys, k))]
                     : k \in SqlGroupKeys(keys)}
    IN  SortRows(grouped, nullsLast)

\* select ... group_by(age_bucket).order_by(age_bucket): the place of the null
\* group is the database's default_null_order (nullsLast)
task_sqlalchemy_rows(rows, nullsLast) ==
    LET keys     == SqlalchemyAgeBucketColumn(rows)
        survived == SurvivedColumn(rows)
        grouped  == {[age_bucket |-> k,
                      samples |-> SqlSamples(keys, GroupIndices(keys, k)),
                      survival_likelyhood |-> Mean(survived, GroupIndices(keys, k))]
                     : k \in SqlGroupKeys(keys)}
    IN  SortRows(grouped, nullsLast)

\* SELECT ... GROUP BY ... ORDER BY ... ASC NULLS LAST
task_sql_rows(rows) ==
    LET keys     == SqlAgeBucketColumn(rows)
        survived == SurvivedColumn(rows)
        grouped  == {[age_bucket |-> k,
                      samples |-> SqlSamples(keys, GroupIndices(keys, k)),
                      survival_likelyhood |-> Mean(survived, GroupIndices(keys, k))]
                     : k \in SqlGroupKeys(keys)}
    IN  SortRows(grouped, TRUE)

----------------------------------------------------------------------------
(* Input tables *)

RequiredColumns == {"age", "survived"}

NullableAges == {NULL} \cup {Some(a) : a \in Ages}

NullableSurvived == {NULL} \cup {Some(s) : s \in SurvivedValues}

ColumnDomain(c) == IF c = "age" THEN NullableAges ELSE NullableSurvived

\* the rows a table with columns cols can hold
RowsOver(cols) ==
    {r \in [cols -> NullableAges \cup NullableSurvived] :
        \A c \in cols : r[c] \in ColumnDomain(c)}

TablesOver(cols) == UNION {[1..n -> RowsOver(cols)] : n \in 0..MaxRows}

\* a task fails on a table that lacks a column it names; nothing else is checked
MissingColumn == ~(RequiredColumns \subseteq columns)

----------------------------------------------------------------------------
(* Actions: one run of a task on the input table *)

\* faulty variant: the exception swallowed, an empty table returned
FailSilently(name, exception) ==
    /\ task' = name
    /\ error' = "none"
    /\ age_bucket' = <<>>
    /\ result' = <<>>
    /\ UNCHANGED <<columns, titanic, exprVars, envVars, nbVars, flowVars>>

Fail(name, exception) ==
    /\ task' = name
    /\ error' = exception
    /\ age_bucket' = <<>>
    /\ result' = <<>>
    /\ UNCHANGED <<columns, titanic, exprVars, envVars, nbVars, flowVars>>

\* faulty variant: the bucket column is assigned in place
\* (titanic["age_bucket"] = ...) instead of on the copy that assign returns
ReturnAssigningInPlace(name, keys, rows) ==
    /\ task' = name
    /\ error' = "none"
    /\ age_bucket' = keys
    /\ result' = rows
    /\ columns' = columns \cup {"age_bucket"}
    /\ titanic' = [j \in 1..Len(titanic) |->
                      [c \in columns \cup {"age_bucket"} |->
                          IF c = "age_bucket" THEN keys[j] ELSE titanic[j][c]]]
    /\ UNCHANGED <<exprVars, envVars, nbVars, flowVars>>

Return(name, keys, rows) ==
    /\ task' = name
    /\ error' = "none"
    /\ age_bucket' = keys
    /\ result' = rows
    /\ UNCHANGED <<columns, titanic, exprVars, envVars, nbVars, flowVars>>

task_pandas ==
    IF "age" \notin columns THEN Fail("task_pandas", "AttributeError")
    ELSE IF "survived" \notin columns THEN Fail("task_pandas", "KeyError")
    ELSE Return("task_pandas",
                PandasAgeBucketColumn(titanic),
                task_pandas_rows(titanic))

\* faulty variant: without the final .sort("age_bucket"); groupby does not
\* maintain any order, the groups come out in an arbitrary one
task_polars_unsorted ==
    IF MissingColumn THEN Fail("task_polars", "ColumnNotFoundError")
    ELSE \E countNulls \in library.countNulls :
            LET rows == task_polars_rows(titanic, countNulls)
            IN  \E p \in [1..Len(rows) -> 1..Len(rows)] :
                    /\ \A j, k \in 1..Len(rows) : p[j] = p[k] => j = k
                    /\ Return("task_polars",
                              PolarsAgeBucketColumn(titanic),
                              [j \in 1..Len(rows) |-> rows[p[j]]])

task_polars ==
    IF MissingColumn THEN Fail("task_polars", "ColumnNotFoundError")
    ELSE \E countNulls \in library.countNulls :
            Return("task_polars",
                   PolarsAgeBucketColumn(titanic),
                   task_polars_rows(titanic, countNulls))

task_sqlalchemy ==
    IF "age" \notin columns THEN Fail("task_sqlalchemy", "AttributeError")
    ELSE IF "survived" \notin columns THEN Fail("task_sqlalchemy", "AttributeError")
    ELSE \E nullsLast \in library.nullsLast :
            Return("task_sqlalchemy",
                   SqlalchemyAgeBucketColumn(titanic),
                   task_sqlalchemy_rows(titanic, nullsLast))

task_sql ==
    IF MissingColumn THEN Fail("task_sql", "ProgrammingError")
    ELSE Return("task_sql",
                SqlAgeBucketColumn(titanic),
                task_sql_rows(titanic))

----------------------------------------------------------------------------
(* The aggregation on every input table within the bounds *)

Tasks == <<"task_pandas", "task_polars", "task_transform_df", "task_transform_sql",
           "task_ibis", "task_sqlalchemy", "task_sql">>

NoBuckets == [t \in Range(Tasks) |-> NULL]

\* the releases are not pinned: pl.Expr.count may or may not count nulls, and
\* the database's default_null_order may be NULLS FIRST or NULLS LAST
AnyRelease == [countNulls |-> BOOLEAN, nullsLast |-> BOOLEAN]

\* one installation: each of the two behaviours is fixed
Installations == [countNulls : {{TRUE}, {FALSE}}, nullsLast : {{TRUE}, {FALSE}}]

Init ==
    /\ columns \in SUBSET RequiredColumns
    /\ titanic \in TablesOver(columns)
    /\ task = "none"
    /\ age_bucket = <<>>
    /\ result = <<>>
    /\ error = "none"
    /\ age = 0
    /\ bucket = NoBuckets
    /\ library = AnyRelease
    /\ NotebookClosed
    /\ NoFlow

Next ==
    \/ task_sql
    \/ task_polars
    \/ task_sqlalchemy
    \/ task_pandas

Spec == Init /\ [][Next]_vars

\* the same tasks within one installation, on the tables of at most
\* MaxInstalledRows rows that have both columns
InitInstalled ==
    /\ columns = RequiredColumns
    /\ titanic \in UNION {[1..n -> RowsOver(columns)] : n \in 0..MaxInstalledRows}
    /\ task = "none"
    /\ age_bucket = <<>>
    /\ result = <<>>
    /\ error = "none"
    /\ age = 0
    /\ bucket = NoBuckets
    /\ library \in Installations
    /\ NotebookClosed
    /\ NoFlow

SpecInstalled == InitInstalled /\ [][Next]_vars

----------------------------------------------------------------------------
(* The bucket expressions of the seven tasks on one age, evaluated in the  *)
(* order of the tasks list of get_pipeline                                 *)

\* the tasks before position n have been evaluated, task n has not
AtTask(n) ==
    /\ \A m \in 1..(n - 1) : ~IsNull(bucket[Tasks[m]])
    /\ IsNull(bucket[Tasks[n]])

Evaluate(n, b) ==
    /\ AtTask(n)
    /\ bucket' = [bucket EXCEPT ![Tasks[n]] = b]
    /\ UNCHANGED <<age, aggVars, envVars, nbVars, flowVars>>

bucket_pandas == Evaluate(1, PandasAgeBucket(Some(age)))

bucket_polars == Evaluate(2, PolarsAgeBucket(Some(age)))

bucket_transform_df == Evaluate(3, TransformDfAgeBucket(Some(age)))

bucket_transform_sql == Evaluate(4, TransformSqlAgeBucket(Some(age)))

bucket_ibis == Evaluate(5, IbisAgeBucket(Some(age)))

bucket_sqlalchemy == Evaluate(6, SqlalchemyAgeBucket(Some(age)))

bucket_sql == Evaluate(7, SqlAgeBucket(Some(age)))

InitRound ==
    /\ columns = RequiredColumns
    /\ titanic = <<>>
    /\ task = "none"
    /\ age_bucket = <<>>
    /\ result = <<>>
    /\ error = "none"
    /\ age \in 0..MaxAge
    /\ bucket = NoBuckets
    /\ library = AnyRelease
    /\ NotebookClosed
    /\ NoFlow

NextRound ==
    \/ bucket_pandas
    \/ bucket_polars
    \/ bucket_transform_df
    \/ bucket_transform_sql
    \/ bucket_ibis
    \/ bucket_sqlalchemy
    \/ bucket_sql

SpecRound == InitRound /\ [][NextRound]_vars

\* the same expressions on the ages 0.00, 0.01, ..., that are multiples of 0.01
InitCenti ==
    /\ columns = RequiredColumns
    /\ titanic = <<>>
    /\ task = "none"
    /\ age_bucket = <<>>
    /\ result = <<>>
    /\ error = "none"
    /\ age \in {10 * c : c \in 0..MaxCentiAge}
    /\ bucket = NoBuckets
    /\ library = AnyRelease
    /\ NotebookClosed
    /\ NoFlow

SpecCenti == InitCenti /\ [][NextRound]_vars

----------------------------------------------------------------------------
(* The dataframe of vectorization01.ipynb and vectorization02.ipynb *)

\* the least and the greatest value of the integer dtype of int_col
MinInt == -(2^(IntBits - 1))

MaxInt == 2^(IntBits - 1) - 1

Fits(x) == MinInt <= x /\ x <= MaxInt

\* the arithmetic of an integer column wraps around silently
Wrap(x) == ((x - MinInt) % (2^IntBits)) + MinInt

IntColValues == {MinInt, 0, 1, 2, 3, 2^(IntBits - 2)}

StrColValues == {"a", "b"}

\* pd.DataFrame(dict(int_col=[...], str_col=[...])) with the default index;
\* row k of the model is the row of index k - 1
Dataframes ==
    UNION {{[int_col |-> ic, str_col |-> sc] :
                ic \in [1..n -> IntColValues], sc \in [1..n -> StrColValues]}
           : n \in 0..MaxDfRows}

Nrows == Len(df.int_col)

Index == 1..Nrows

\* pd.Series(0, index=range(len(df)))
Zeros == [k \in Index |-> 0]

\* the aggregation is not running while a notebook is open
NoAggregation ==
    /\ columns = RequiredColumns
    /\ titanic = <<>>
    /\ task = "none"
    /\ age_bucket = <<>>
    /\ result = <<>>
    /\ error = "none"
    /\ age = 0
    /\ bucket = NoBuckets
    /\ library = AnyRelease

NoPipeline ==
    /\ NoAggregation
    /\ NoFlow

pipelineVars == <<aggVars, exprVars, envVars, flowVars>>

InitNotebook ==
    /\ NoPipeline
    /\ df \in Dataframes
    /\ cell = "opened"
    /\ pos = 0
    /\ out = <<>>
    /\ out2 = <<>>
    /\ out3 = <<>>
    /\ raised = "none"
    /\ evaluated = {}

\* out = pd.Series(0, index=range(len(df))), before the first iteration
LoopStart(name) ==
    /\ cell = "opened"
    /\ cell' = name
    /\ pos' = 0
    /\ out' = Zeros
    /\ UNCHANGED <<df, out2, out3, raised, evaluated, pipelineVars>>

\* out[i] = v in iteration i of for i, row in df.iterrows().  v is a Python int
\* (the row of a frame with a str column holds objects) and does not wrap.  A
\* value out of the range of out's dtype either upcasts out and is stored, or
\* the assignment raises, depending on the pandas release.
LoopAssign(name, v) ==
    /\ cell = name
    /\ pos < Nrows
    /\ \/ /\ out' = [out EXCEPT ![pos + 1] = v]
          /\ pos' = pos + 1
          /\ UNCHANGED <<cell, raised>>
       \/ /\ ~Fits(v)
          /\ cell' = "failed"
          /\ raised' = "OverflowError"
          /\ UNCHANGED <<out, pos>>
    /\ UNCHANGED <<df, out2, out3, evaluated, pipelineVars>>

LoopDone(name) == cell = name /\ pos = Nrows

----------------------------------------------------------------------------
(* vectorization01.ipynb: the row loop and its vectorized form *)

loop_start == LoopStart("loop")

\* faulty variant: out[i] = row["int_col"] ** 2
loop_row_squaring == LoopAssign("loop", df.int_col[pos + 1] * df.int_col[pos + 1])

\* out[i] = row["int_col"] * 2
loop_row == LoopAssign("loop", df.int_col[pos + 1] * 2)

\* out2 = df["int_col"] * 2
vectorized ==
    /\ LoopDone("loop")
    /\ cell' = "vectorized"
    /\ out2' = [k \in Index |-> Wrap(df.int_col[k] * 2)]
    /\ UNCHANGED <<df, pos, out, out3, raised, evaluated, pipelineVars>>

NextNotebook01 == loop_start \/ loop_row \/ vectorized

SpecNotebook01 == InitNotebook /\ [][NextNotebook01]_vars

----------------------------------------------------------------------------
(* vectorization02.ipynb: a conditional as a loop, as np.where and as a    *)
(* filtered assignment; then a conditional whose true-block raises on the  *)
(* rows it is not meant for                                                *)

\* df["str_col"] == "a"
StrIsA == [k \in Index |-> df.str_col[k] = "a"]

\* df["int_col"] * c
IntColTimes(c) == [k \in Index |-> Wrap(df.int_col[k] * c)]

\* faulty variant: the true-block and the false-block swapped
NpWhereSwapped(cond, x, y) == [k \in DOMAIN cond |-> IF cond[k] THEN y[k] ELSE x[k]]

\* np.where(cond, x, y) on operands that are already computed for every row
NpWhere(cond, x, y) == [k \in DOMAIN cond |-> IF cond[k] THEN x[k] ELSE y[k]]

\* faulty variant: np.where evaluating a block on the rows that select it only
WhereOperandRowsSelected(cond) == {k \in DOMAIN cond : cond[k]}

\* the rows on which an operand expression of np.where is evaluated: all of
\* them, the operands are computed before np.where is called
WhereOperandRows(cond) == DOMAIN cond

\* faulty variant: the filter left out on the right-hand side
FilteredRowsAll(f) == DOMAIN f

\* the rows of series[_filter]
FilteredRows(f) == {k \in DOMAIN f : f[k]}

\* b ** e of the integer dtype for e >= 0, wrapping around
RECURSIVE IntPow(_, _)
IntPow(b, e) == IF e = 0 THEN 1 ELSE Wrap(b * IntPow(b, e - 1))

\* base ** exps on the rows given: numpy raises ValueError ("Integers to
\* negative integer powers are not allowed.") if any exponent is negative
PowRaises(exps, rows) == \E k \in rows : exps[k] < 0

\* df[name] = values
WithColumn(frame, name, values) ==
    [c \in DOMAIN frame \cup {name} |-> IF c = name THEN values ELSE frame[c]]

\* df["int_col"] - 2
Power == [k \in Index |-> Wrap(df.int_col[k] - 2)]

cond_loop_start == LoopStart("cond_loop")

\* if row["str_col"] == "a": out[i] = row["int_col"] * 2
\* else: out[i] = row["int_col"] * 3
cond_loop_row ==
    LoopAssign("cond_loop",
               IF df.str_col[pos + 1] = "a" THEN df.int_col[pos + 1] * 2
               ELSE df.int_col[pos + 1] * 3)

\* out2 = np.where(df["str_col"] == "a", df["int_col"] * 2, df["int_col"] * 3)
np_where ==
    /\ LoopDone("cond_loop")
    /\ cell' = "np_where"
    /\ out2' = NpWhere(StrIsA, IntColTimes(2), IntColTimes(3))
    /\ UNCHANGED <<df, pos, out, out3, raised, evaluated, pipelineVars>>

\* out3 = df["int_col"] * 3; _filter = df["str_col"] == "a"
\* out3[_filter] = df["int_col"][_filter] * 2
filtering ==
    /\ cell = "np_where"
    /\ cell' = "filtering"
    /\ out3' = [k \in Index |-> IF k \in FilteredRows(StrIsA)
                                THEN Wrap(df.int_col[k] * 2)
                                ELSE IntColTimes(3)[k]]
    /\ UNCHANGED <<df, pos, out, out2, raised, evaluated, pipelineVars>>

\* try: df["power"] = df["int_col"] - 2
\*      df["powered"] = np.where(df["power"] >= 0,
\*                               df["int_col"] ** df["power"], df["int_col"])
\* except ValueError as e: print("ValueError:", e)
np_where_power ==
    /\ cell = "filtering"
    /\ cell' = "np_where_power"
    /\ LET cond == [k \in Index |-> Power[k] >= 0]
           rows == WhereOperandRows(cond)
       IN  /\ evaluated' = rows
           /\ IF PowRaises(Power, rows)
              THEN /\ raised' = "ValueError"
                   /\ df' = WithColumn(df, "power", Power)
              ELSE /\ raised' = "none"
                   /\ df' = WithColumn(WithColumn(df, "power", Power), "powered",
                                NpWhere(cond,
                                        [k \in Index |-> IntPow(df.int_col[k], Power[k])],
                                        df.int_col))
    /\ UNCHANGED <<pos, out, out2, out3, pipelineVars>>

\* df["power"] = df["int_col"] - 2; df["powered"] = df["int_col"]
\* _filter = df["power"] >= 0
\* df.loc[_filter, "powered"] = df["int_col"][_filter] ** df["power"][_filter]
filtering_power ==
    /\ cell = "np_where_power"
    /\ cell' = "filtering_power"
    /\ LET _filter == [k \in Index |-> Power[k] >= 0]
           rows    == FilteredRows(_filter)
       IN  /\ evaluated' = rows
           /\ IF PowRaises(Power, rows)
              THEN /\ raised' = "ValueError"
                   /\ df' = WithColumn(WithColumn(df, "power", Power), "powered",
                                       df.int_col)
              ELSE /\ raised' = "none"
                   /\ df' = WithColumn(WithColumn(df, "power", Power), "powered",
                                [k \in Index |-> IF _filter[k]
                                                 THEN IntPow(df.int_col[k], Power[k])
                                                 ELSE df.int_col[k]])
    /\ UNCHANGED <<pos, out, out2, out3, pipelineVars>>

NextNotebook02 ==
    \/ cond_loop_start
    \/ cond_loop_row
    \/ np_where
    \/ filtering
    \/ np_where_power
    \/ filtering_power

SpecNotebook02 == InitNotebook /\ [][NextNotebook02]_vars

----------------------------------------------------------------------------
(* The flows of get_pipeline: flow.tasks in definition order, the commit of *)
(* a stage being the entry added when its with-block is left               *)

\* a task call inside a stage: its input tasks in argument order, the tables
\* it returns, and whether it is declared lazy=True
TaskEntry(name, stage, inputs, tables, lazy) ==
    [name |-> name, stage |-> stage, kind |-> "task", inputs |-> inputs,
     tables |-> tables, lazy |-> lazy]

\* the commit of a stage; it is named by the stage
CommitEntry(stage, tasks) ==
    [name |-> stage, stage |-> stage, kind |-> "commit", inputs |-> tasks,
     tables |-> <<>>, lazy |-> FALSE]

\* get_pipeline of part 4
Part4Tasks ==
    << TaskEntry("read_input_data", "01_raw_input", <<>>, <<"input_data">>, FALSE),
       CommitEntry("01_raw_input", <<"read_input_data">>),
       TaskEntry("feature_trip_distance", "02_features",
                 <<"read_input_data">>, <<"trip_distance">>, FALSE),
       TaskEntry("feature_split_pickup_datetime", "02_features",
                 <<"read_input_data">>, <<"pickup_datetime">>, FALSE),
       TaskEntry("get_feature_df", "02_features",
                 <<"read_input_data", "feature_trip_distance",
                   "feature_split_pickup_datetime">>,
                 <<"features", "target">>, FALSE),
       TaskEntry("split_train_test", "02_features", <<"get_feature_df">>,
                 <<"features_train", "features_test", "target_train", "target_test">>,
                 FALSE),
       CommitEntry("02_features",
                   <<"feature_trip_distance", "feature_split_pickup_datetime",
                     "get_feature_df", "split_train_test">>),
       TaskEntry("train_model", "03_model", <<"split_train_test">>, <<>>, FALSE),
       CommitEntry("03_model", <<"train_model">>),
       TaskEntry("evaluate_model", "04_evaluation",
                 <<"split_train_test", "train_model">>, <<>>, FALSE),
       CommitEntry("04_evaluation", <<"evaluate_model">>) >>

\* the tasks of part 7 that are declared lazy=True and have no version
LazyTasks == {"task_transform_sql", "task_ibis", "task_sqlalchemy", "task_sql"}

\* get_pipeline of part 7: out_tbls = [task(titanic) for task in tasks], then
\* print_tables(out_tbls)
Part7Tasks ==
    << TaskEntry("read_input_data", "t1_raw_input", <<>>, <<"titanic">>, FALSE),
       CommitEntry("t1_raw_input", <<"read_input_data">>) >>
    \o [k \in 1..Len(Tasks) |->
           TaskEntry(Tasks[k], "t2_transformed_data", <<"read_input_data">>,
                     <<Tasks[k]>>, Tasks[k] \in LazyTasks)]
    \o << TaskEntry("print_tables", "t2_transformed_data", Tasks, <<>>, FALSE),
          CommitEntry("t2_transformed_data", Tasks \o <<"print_tables">>) >>

Flows == {"part4", "part7"}

FlowTasks(f) == IF f = "part4" THEN Part4Tasks ELSE Part7Tasks

Entries == FlowTasks(flow)

EntryNames(f) == {FlowTasks(f)[k].name : k \in 1..Len(FlowTasks(f))}

TaskNames(f) ==
    {FlowTasks(f)[k].name : k \in {j \in 1..Len(FlowTasks(f)) :
                                      FlowTasks(f)[j].kind = "task"}}

EntryOf(f, n) == FlowTasks(f)[CHOOSE k \in 1..Len(FlowTasks(f)) : FlowTasks(f)[k].name = n]

\* the cache key of a task: its own revision and the cache keys of its inputs
RECURSIVE CacheKey(_, _, _)
CacheKey(f, vs, n) ==
    LET inputs == EntryOf(f, n).inputs
    IN  <<vs[n], [k \in 1..Len(inputs) |-> CacheKey(f, vs, inputs[k])]>>

\* the task is found in the cache: the committed entry has the key of this run
CacheValid(n) ==
    /\ ~IsNull(cache[n])
    /\ Val(cache[n]).key = CacheKey(flow, versions, n)

\* train_test_split(features_df, target_df, test_size=0.1): the test rows are
\* ceil(0.1 * n) rows drawn at random (no random_state), the others train
TestSize(n) == (n + 9) \div 10

TestSets(n) == {ids \in SUBSET (1..n) : Cardinality(ids) = TestSize(n)}

\* with fewer than two rows the train set would be empty and
\* train_test_split raises
SplitRaises(n) == n - TestSize(n) < 1

\* what was edited between two runs: nothing, or one of the tasks
Edits(f) == {{}} \cup {{n} : n \in TaskNames(f)}

NoEntries(f) == [n \in TaskNames(f) |-> NULL]

Event(ev, name) == [ev |-> ev, name |-> name]

InitFlow ==
    /\ NoAggregation
    /\ NotebookClosed
    /\ flow \in Flows
    /\ train_rows \in IF flow = "part4" THEN 0..MaxTrainRows ELSE {0}
    /\ versions = [n \in TaskNames(flow) |-> 1]
    /\ pc = 0
    /\ task_state = [n \in EntryNames(flow) |-> "PENDING"]
    /\ staged = NoEntries(flow)
    /\ cache = NoEntries(flow)
    /\ log = <<>>
    /\ flow_result = "none"
    /\ history = <<>>

otherVars == <<aggVars, exprVars, envVars, nbVars>>

\* faulty variant: the engine takes the entries from the end of flow.tasks
CurrentFromEnd == Entries[Len(Entries) + 1 - pc]

\* the entry the sequential engine is at: flow.tasks in definition order
Current == Entries[pc]

Running == pc \in 1..Len(Entries)

\* the split of the run is recorded in the run's history entry
RecordSplit(n, data) ==
    IF n = "split_train_test"
    THEN [history EXCEPT ![Len(history)].split = Some(data)]
    ELSE history

\* flow.run(): a new run, on the code as it was possibly edited since the
\* last run (one task given a new version or a new query) and on the table
\* store as it is, or emptied.  The history entry of the run notes whether
\* it starts on an empty cache, and whether it is a rerun with nothing
\* changed since a successful run.
flow_run_start ==
    /\ pc = 0
    /\ Len(history) < MaxRuns
    /\ \E changed \in (IF history = <<>> THEN {{}} ELSE Edits(flow)),
          emptied \in (IF cache = NoEntries(flow) THEN {FALSE} ELSE BOOLEAN) :
          /\ versions' = [n \in TaskNames(flow) |->
                             IF n \in changed THEN versions[n] + 1 ELSE versions[n]]
          /\ cache' = IF emptied THEN NoEntries(flow) ELSE cache
          /\ history' = Append(history, [empty_cache |-> cache' = NoEntries(flow),
                                         unchanged |-> /\ flow_result = "successful"
                                                       /\ changed = {}
                                                       /\ ~emptied,
                                         split |-> NULL])
    /\ pc' = 1
    /\ task_state' = [n \in EntryNames(flow) |-> "PENDING"]
    /\ staged' = NoEntries(flow)
    /\ log' = <<>>
    /\ flow_result' = "none"
    /\ UNCHANGED <<flow, train_rows, otherVars>>

\* a task that is not lazy and is found in the cache: its body is not
\* executed, the cached tables are used
task_cache_valid ==
    /\ Running
    /\ Current.kind = "task"
    /\ ~Current.lazy
    /\ CacheValid(Current.name)
    /\ task_state' = [task_state EXCEPT ![Current.name] = "CACHE_VALID"]
    /\ staged' = [staged EXCEPT ![Current.name] = cache[Current.name]]
    /\ log' = log \o <<Event("start", Current.name), Event("cached", Current.name)>>
    /\ history' = RecordSplit(Current.name, Val(cache[Current.name]).data)
    /\ pc' = pc + 1
    /\ UNCHANGED <<flow, train_rows, versions, cache, flow_result, otherVars>>

\* faulty variant: the failed task is recorded and the run goes on
TaskRaisesRunContinues(n) ==
    /\ task_state' = [task_state EXCEPT ![n] = "FAILED"]
    /\ log' = log \o <<Event("start", n), Event("execute", n), Event("failed", n)>>
    /\ pc' = pc + 1
    /\ UNCHANGED <<flow, train_rows, versions, staged, cache, flow_result, history,
                   otherVars>>

\* fail_fast: the exception of a task body leaves flow.run()
TaskRaises(n) ==
    /\ task_state' = [task_state EXCEPT ![n] = "FAILED"]
    /\ log' = log \o <<Event("start", n), Event("execute", n), Event("failed", n)>>
    /\ flow_result' = "raised"
    /\ pc' = 0
    /\ UNCHANGED <<flow, train_rows, versions, staged, cache, history, otherVars>>

\* what the body writes to stdout: print_tables prints every input table
Printed(n) ==
    IF n = "print_tables"
    THEN [k \in 1..Len(EntryOf(flow, n).inputs) |-> Event("print", EntryOf(flow, n).inputs[k])]
    ELSE <<>>

\* the returned tables are written to the transaction schema of the stage
Materialized(n) ==
    IF EntryOf(flow, n).tables = <<>> THEN <<>> ELSE <<Event("materialize", n)>>

\* the tables a task body returns: abstract, but for split_train_test
TaskData(n) ==
    IF n = "split_train_test" THEN TestSets(train_rows) ELSE {{}}

BodyRaises(n) == n = "split_train_test" /\ SplitRaises(train_rows)

\* a task that is not lazy and is not found in the cache: its body is
\* executed and either returns or raises
task_execute ==
    /\ Running
    /\ Current.kind = "task"
    /\ ~Current.lazy
    /\ ~CacheValid(Current.name)
    /\ \/ /\ ~BodyRaises(Current.name)
          /\ \E data \in TaskData(Current.name) :
                /\ staged' = [staged EXCEPT ![Current.name] =
                                 Some([key |-> CacheKey(flow, versions, Current.name),
                                       data |-> data])]
                /\ history' = RecordSplit(Current.name, data)
          /\ task_state' = [task_state EXCEPT ![Current.name] = "COMPLETED"]
          /\ log' = log \o <<Event("start", Current.name), Event("execute", Current.name)>>
                        \o Printed(Current.name) \o Materialized(Current.name)
          /\ pc' = pc + 1
          /\ UNCHANGED <<flow, train_rows, versions, cache, flow_result, otherVars>>
       \/ TaskRaises(Current.name)

\* faulty variant: a lazy task, having no version, is never cache valid
task_lazy_uncached ==
    /\ Running
    /\ Current.kind = "task"
    /\ Current.lazy
    /\ \/ /\ task_state' = [task_state EXCEPT ![Current.name] = "COMPLETED"]
          /\ staged' = [staged EXCEPT ![Current.name] =
                           Some([key |-> CacheKey(flow, versions, Current.name),
                                 data |-> {}])]
          /\ log' = log \o <<Event("start", Current.name), Event("execute", Current.name)>>
                        \o Materialized(Current.name)
          /\ pc' = pc + 1
          /\ UNCHANGED <<flow, train_rows, versions, cache, flow_result, history, otherVars>>
       \/ TaskRaises(Current.name)

\* a lazy task: its body is always executed to produce the query; the table
\* is written only when the query is not found in the cache
task_lazy ==
    /\ Running
    /\ Current.kind = "task"
    /\ Current.lazy
    /\ \/ /\ CacheValid(Current.name)
          /\ task_state' = [task_state EXCEPT ![Current.name] = "CACHE_VALID"]
          /\ staged' = [staged EXCEPT ![Current.name] = cache[Current.name]]
          /\ log' = log \o <<Event("start", Current.name), Event("execute", Current.name),
                             Event("cached", Current.name)>>
          /\ pc' = pc + 1
          /\ UNCHANGED <<flow, train_rows, versions, cache, flow_result, history, otherVars>>
       \/ /\ ~CacheValid(Current.name)
          /\ task_state' = [task_state EXCEPT ![Current.name] = "COMPLETED"]
          /\ staged' = [staged EXCEPT ![Current.name] =
                           Some([key |-> CacheKey(flow, versions, Current.name),
                                 data |-> {}])]
          /\ log' = log \o <<Event("start", Current.name), Event("execute", Current.name)>>
                        \o Materialized(Current.name)
          /\ pc' = pc + 1
          /\ UNCHANGED <<flow, train_rows, versions, cache, flow_result, history, otherVars>>
       \/ TaskRaises(Current.name)

\* faulty variant: the commit is done but its entry is left PENDING
commit_stage_unmarked ==
    /\ Running
    /\ Current.kind = "commit"
    /\ cache' = [n \in TaskNames(flow) |->
                    IF n \in Range(Current.inputs) THEN staged[n] ELSE cache[n]]
    /\ log' = log \o <<Event("commit", Current.name)>>
    /\ pc' = pc + 1
    /\ UNCHANGED <<flow, train_rows, versions, task_state, staged, flow_result,
                   history, otherVars>>

\* the commit of a stage: what its tasks wrote becomes the content of the
\* stage; the stage is reported cache valid when all its tasks were
commit_stage ==
    /\ Running
    /\ Current.kind = "commit"
    /\ cache' = [n \in TaskNames(flow) |->
                    IF n \in Range(Current.inputs) THEN staged[n] ELSE cache[n]]
    /\ task_state' = [task_state EXCEPT ![Current.name] = "COMPLETED"]
    /\ log' = log \o <<Event("commit", Current.name)>>
                  \o (IF \A n \in Range(Current.inputs) : task_state[n] = "CACHE_VALID"
                      THEN <<Event("stage_cache_valid", Current.name)>>
                      ELSE <<>>)
    /\ pc' = pc + 1
    /\ UNCHANGED <<flow, train_rows, versions, staged, flow_result, history, otherVars>>

\* flow.run() returns its result after the last entry
flow_run_end ==
    /\ pc = Len(Entries) + 1
    /\ flow_result' = "successful"
    /\ pc' = 0
    /\ UNCHANGED <<flow, train_rows, versions, task_state, staged, cache, log,
                   history, otherVars>>

NextFlow ==
    \/ flow_run_start
    \/ task_cache_valid
    \/ task_execute
    \/ task_lazy
    \/ commit_stage
    \/ flow_run_end

SpecFlow == InitFlow /\ [][NextFlow]_vars

\* the sequential engine runs one entry after the other without waiting for
\* anything: a started run is continued
EngineStep == task_cache_valid \/ task_execute \/ task_lazy \/ commit_stage \/ flow_run_end

\* the runs of a session in which the code is not edited between the runs
flow_rerun == flow_run_start /\ versions' = versions

NextFlowSameCode == flow_rerun \/ EngineStep

SpecFlowFair == InitFlow /\ [][NextFlowSameCode]_vars /\ WF_vars(EngineStep)

----------------------------------------------------------------------------
(* Properties of the aggregation *)

\* a task has run and returned
Returned == task # "none" /\ error = "none"

Rows == 1..Len(titanic)

OutRows == 1..Len(result)

NullAgeRows == {i \in Rows : IsNull(titanic[i].age)}

RECURSIVE SamplesFrom(_)
SamplesFrom(j) == IF j > Len(result) THEN 0 ELSE result[j].samples + SamplesFrom(j + 1)

SumOfSamples == SamplesFrom(1)

NullBucketRows == {j \in OutRows : IsNull(result[j].age_bucket)}

C2_DistinctSortedNullsLast ==
    Returned =>
        /\ \A j, k \in OutRows : j # k => result[j].age_bucket # result[k].age_bucket
        /\ \A j, k \in OutRows :
              (j < k /\ ~IsNull(result[j].age_bucket) /\ ~IsNull(result[k].age_bucket))
                 => Val(result[j].age_bucket) < Val(result[k].age_bucket)
        /\ \A j \in NullBucketRows : j = Len(result)

\* C3: the bucket of a row with a non-null age is (age + 4.999) rounded to a
\* multiple of 10 (at most 5 away from it; in the variants that divide by 10 and
\* round, task_polars and task_sql, a tie goes up), the bucket of a row with a
\* null age is null, and a null age raises nothing.
C3_BucketIsRoundedAge ==
    (task # "none" /\ ~MissingColumn) =>
        /\ error = "none"
        /\ Len(age_bucket) = Len(titanic)
        /\ \A i \in Rows :
              IF IsNull(titanic[i].age) THEN IsNull(age_bucket[i])
              ELSE LET x == Val(titanic[i].age) + Offset
                   IN  /\ ~IsNull(age_bucket[i])
                       /\ Val(age_bucket[i]) % Milli(10) = 0
                       /\ Val(age_bucket[i]) - x <= Milli(5)
                       /\ x - Val(age_bucket[i]) <= Milli(5)
                       /\ task \in {"task_polars", "task_sql"}
                             => x - Val(age_bucket[i]) < Milli(5)

C3_Witness ==
    /\ Returned
    /\ task = "task_polars"
    /\ \E i, k \in Rows :
          /\ IsNull(titanic[i].age) /\ IsNull(age_bucket[i])
          /\ titanic[k].age = Some(20001) /\ age_bucket[k] = Some(30000)

\* the survived values of the rows idx, added up value by value
RECURSIVE TotalSurvived(_, _)
TotalSurvived(idx, values) ==
    IF values = {} THEN 0
    ELSE LET v == CHOOSE w \in values : TRUE
         IN  v * Cardinality({i \in idx : titanic[i].survived = Some(v)})
             + TotalSurvived(idx, values \ {v})

\* the input rows of the bucket b whose survived is not null
SurvivedRows(b) == {i \in Rows : age_bucket[i] = b /\ ~IsNull(titanic[i].survived)}

\* C4: survival_likelyhood of an output row is the mean of survived over the input
\* rows of that bucket whose survived is not null, and null when there is none.
C4_SurvivalIsMeanOfNonNull ==
    Returned =>
        \A j \in OutRows :
            LET r == result[j]
                S == SurvivedRows(r.age_bucket)
            IN  IF S = {} THEN IsNull(r.survival_likelyhood)
                ELSE /\ ~IsNull(r.survival_likelyhood)
                     /\ Val(r.survival_likelyhood)[2] > 0
                     /\ Val(r.survival_likelyhood)[1] * Cardinality(S)
                            = Val(r.survival_likelyhood)[2] * TotalSurvived(S, SurvivedValues)

C4_Witness ==
    /\ Returned
    /\ \E j \in OutRows :
          /\ result[j].survival_likelyhood = Some(<<1, 2>>)
          /\ result[j].samples = 3
          /\ \E i \in Rows : age_bucket[i] = result[j].age_bucket
                             /\ IsNull(titanic[i].survived)

\* C5 (as stated): when the input has rows with a null age and rows with a
\* non-null age, the output has exactly one row whose age_bucket is null.
C5_NullAgesFormOneGroup ==
    (Returned /\ NullAgeRows # {} /\ NullAgeRows # Rows)
        => Cardinality(NullBucketRows) = 1

\* the mean of survived over all input rows, as the tasks compute it
MeanSurvivedOfAll == Mean(SurvivedColumn(titanic), Rows)

AllAgesNull == Len(titanic) >= 1 /\ NullAgeRows = Rows

C7_SamplesCountBucketRows ==
    Returned =>
        \A j \in OutRows :
            ~IsNull(result[j].age_bucket) =>
                result[j].samples
                    = Cardinality({i \in Rows : age_bucket[i] = result[j].age_bucket})

C7_Witness ==
    /\ Returned
    /\ \E j \in OutRows :
          /\ ~IsNull(result[j].age_bucket)
          /\ result[j].samples = 2
          /\ \E i \in Rows : /\ age_bucket[i] = result[j].age_bucket
                             /\ IsNull(titanic[i].survived)

\* the example of the spec: ages 5, 5, 25 with survived 1, 0, 1
ExampleRows ==
    <<[age |-> Some(5000), survived |-> Some(1)],
      [age |-> Some(5000), survived |-> Some(0)],
      [age |-> Some(25000), survived |-> Some(1)]>>

ExampleResult ==
    <<[age_bucket |-> Some(Milli(10)), samples |-> 2, survival_likelyhood |-> Some(<<1, 2>>)],
      [age_bucket |-> Some(Milli(30)), samples |-> 1, survival_likelyhood |-> Some(<<1, 1>>)]>>

\* C8: the example aggregates to (10, 2, 0.5), (30, 1, 1.0) in this order; in
\* general the input rows of one non-null bucket are merged into exactly one
\* output row, and every output row stands for a bucket of the input.
C8_EqualBucketsMerge ==
    Returned =>
        /\ titanic = ExampleRows => result = ExampleResult
        /\ \A i \in Rows :
              ~IsNull(age_bucket[i]) =>
                  Cardinality({j \in OutRows : result[j].age_bucket = age_bucket[i]}) = 1
        /\ \A j \in OutRows : \E i \in Rows : age_bucket[i] = result[j].age_bucket

C8_Witness ==
    /\ Returned
    /\ task = "task_pandas"
    /\ titanic = ExampleRows
    /\ result = ExampleResult

\* a row whose survived is present and is neither 0 nor 1
SurvivedOutOfRange ==
    /\ "survived" \in columns
    /\ \E i \in Rows : /\ ~IsNull(titanic[i].survived)
                       /\ Val(titanic[i].survived) \notin {0, 1}

\* C9 (as stated): the aggregation fails, with no output, exactly when the input
\* lacks the age or survived field or holds a survived value outside {0, 1}.
C9_InvalidInputFails ==
    task # "none" =>
        /\ error # "none" <=> (MissingColumn \/ SurvivedOutOfRange)
        /\ error # "none" => result = <<>>

\* C9 (amended): the aggregation fails, with no output, exactly when the input
\* table lacks the age or the survived column; a survived value outside {0, 1} is
\* not rejected, it enters the mean like any other number.
C9_OnlyMissingColumnFails ==
    task # "none" =>
        /\ error # "none" <=> MissingColumn
        /\ error # "none" => result = <<>>
        /\ (error = "none" /\ SurvivedOutOfRange) => Len(age_bucket) = Len(titanic)

C9_Witness ==
    /\ Returned
    /\ SurvivedOutOfRange
    /\ \E j \in OutRows : result[j].survival_likelyhood = Some(<<2, 1>>)

----------------------------------------------------------------------------
(* Properties of the bucket expressions *)

AllEvaluated == \A t \in Range(Tasks) : ~IsNull(bucket[t])

\* age + 4.999 is exactly halfway between two multiples of 10, the lower of them
\* an even multiple (the ages 0.001, 20.001, 40.001, ...)
TieAboveEvenMultiple ==
    /\ (age + Offset) % Milli(10) = Milli(5)
    /\ ((age + Offset) \div Milli(10)) % 2 = 0

HalfToEvenTasks == {"task_pandas", "task_transform_df"}

\* C10 (as stated): the seven variants compute the same bucket for every age with
\* up to three decimals, the ages where age + 4.999 is a tie included.
C10_VariantsAgree ==
    AllEvaluated => \A t, u \in Range(Tasks) : bucket[t] = bucket[u]

\* C10 (amended): the variants compute the same bucket for every age except where
\* age + 4.999 is exactly halfway between two multiples of 10 and the lower one is
\* an even multiple of 10; there the half-to-even variants (task_pandas,
\* task_transform_df) give the lower and the others the upper multiple.  The two
\* expression shapes agree wherever the tie-break is the same.
C10_VariantsAgreeOffEvenTies ==
    AllEvaluated =>
        /\ ~TieAboveEvenMultiple => \A t, u \in Range(Tasks) : bucket[t] = bucket[u]
        /\ TieAboveEvenMultiple =>
              \A t \in Range(Tasks) :
                  bucket[t] = IF t \in HalfToEvenTasks
                              THEN Some(age + Offset - Milli(5))
                              ELSE Some(age + Offset + Milli(5))
        /\ bucket["task_sqlalchemy"] = bucket["task_polars"]
        /\ bucket["task_sqlalchemy"] = bucket["task_sql"]

C10_Witness ==
    /\ AllEvaluated
    /\ age = 20001
    /\ bucket["task_pandas"] = Some(20000)
    /\ bucket["task_polars"] = Some(30000)

\* C11: on the same titanic table, task_pandas, task_polars, task_sqlalchemy
\* and task_sql return the same sequence of output rows (same buckets, same
\* samples, same survival value, same order): whenever one of them has returned
\* and then any of them returns, the rows are the rows returned before.
C11_VariantsReturnSameRows ==
    [][(Returned /\ Returned') => result' = result]_vars

\* ages are held in thousandths: a multiple of 0.01 is a multiple of 10 here
IsCentiAge == age % 10 = 0

\* (age + 4.999) / 10 lies exactly halfway between two integers
Halfway == (age + Offset) % Milli(10) = Milli(5)

\* C12: for every age in [0, 120] that is a multiple of 0.01 (every integer age
\* among them), (age + 4.999) / 10 is never exactly halfway between two
\* integers, and so the expressions that round half to even and those that
\* round half away from zero all give the same bucket.
C12_CentiAgesNeverTie ==
    IsCentiAge =>
        /\ ~Halfway
        /\ AllEvaluated => \A t, u \in Range(Tasks) : bucket[t] = bucket[u]

\* the oldest age of the range, 120, evaluated by all seven expressions
C12_Witness ==
    /\ AllEvaluated
    /\ age = Milli(120)
    /\ bucket["task_pandas"] = Some(Milli(120))
    /\ bucket["task_sql"] = Some(Milli(120))

C15_EmptyTableGivesNoRows ==
    (task # "none" /\ ~MissingColumn /\ titanic = <<>>)
        => (error = "none" /\ result = <<>> /\ age_bucket = <<>>)

\* task_polars has run on the empty table with both columns
C15_Witness ==
    /\ task = "task_polars"
    /\ columns = RequiredColumns
    /\ titanic = <<>>
    /\ error = "none"
    /\ result = <<>>

----------------------------------------------------------------------------
(* Properties of the notebook cells *)

\* the loop of vectorization01.ipynb has visited every row
Looped == LoopDone("loop") \/ cell = "vectorized"

\* no product int_col * 2 leaves the range of the integer dtype
DoublesFit == \A k \in Index : Fits(df.int_col[k] * 2)

\* C17: for every dataframe with an integer column int_col and the default
\* index, the row loop out[i] = row.int_col * 2 and the vectorized
\* df.int_col * 2 give the same value at every index, and the loop leaves no
\* index at its initial value 0 unless int_col is 0 there.
C17_LoopEqualsVectorized ==
    /\ Looped => \A k \in Index : out[k] = 0 => df.int_col[k] = 0
    /\ cell = "vectorized" => \A k \in Index : out[k] = out2[k]

\* C17, amended: the same, for the dataframes on which no int_col * 2 leaves
\* the range of the integer dtype, on which the loop raises nothing; the two
\* agree at every index whose product is in range, and a loop that reaches its
\* end has left no index at 0 unless int_col is 0 there.
C17_LoopEqualsVectorizedInRange ==
    /\ DoublesFit => cell # "failed"
    /\ Looped => \A k \in Index : out[k] = 0 => df.int_col[k] = 0
    /\ cell = "vectorized" =>
          \A k \in Index : Fits(df.int_col[k] * 2) =>
              (out[k] = out2[k] /\ out2[k] = df.int_col[k] * 2)

\* the dataframe of the notebook, int_col = [1, 2, 3]: both give [2, 4, 6]
C17_Witness ==
    /\ cell = "vectorized"
    /\ df.int_col = <<1, 2, 3>>
    /\ out = <<2, 4, 6>>
    /\ out2 = <<2, 4, 6>>

\* the three translations of the conditional have run
Translated == cell \in {"filtering", "np_where_power", "filtering_power"}

\* the exact value of the conditional expression at row k
Conditional(k) ==
    IF df.str_col[k] = "a" THEN df.int_col[k] * 2 ELSE df.int_col[k] * 3

\* C18: for every dataframe with the columns int_col and str_col the three
\* translations of the conditional agree at every row: the row loop, np.where
\* and the filtering form; the rows the filter does not select keep the value
\* int_col * 3.
C18_TranslationsAgree ==
    Translated => \A k \in Index :
        /\ out[k] = out2[k]
        /\ out2[k] = out3[k]
        /\ ~StrIsA[k] => out3[k] = IntColTimes(3)[k]

\* C18, amended: np.where and the filtering form agree at every row of every
\* dataframe, and the rows the filter does not select keep int_col * 3; the row
\* loop agrees with them at every row whose value fits the integer dtype.
C18_TranslationsAgreeInRange ==
    Translated => \A k \in Index :
        /\ out2[k] = out3[k]
        /\ out2[k] = Wrap(Conditional(k))
        /\ ~StrIsA[k] => out3[k] = IntColTimes(3)[k]
        /\ Fits(Conditional(k)) => out[k] = out2[k]

\* the values of the notebook: int_col = [1, 2, 3] with only the first row
\* selected gives [2, 6, 9] in all three translations
C18_Witness ==
    /\ cell = "filtering"
    /\ df.int_col = <<1, 2, 3>>
    /\ df.str_col = <<"a", "b", "b">>
    /\ out = <<2, 6, 9>>
    /\ out2 = <<2, 6, 9>>
    /\ out3 = <<2, 6, 9>>

\* C19: the np.where translation of powered = int_col ** power if power >= 0
\* else int_col raises ValueError as soon as one row has power < 0, although
\* the condition would never select the power of that row: both operands are
\* evaluated on all rows before the selection, and powered is not assigned.
C19_NpWhereRaisesOnNegativePower ==
    cell = "np_where_power" =>
        /\ evaluated = Index
        /\ (\E k \in Index : df.power[k] < 0) =>
              (raised = "ValueError" /\ "powered" \notin DOMAIN df)

\* the dataframe of the notebook: power = [-1, 0, 1], and the cell raised
C19_Witness ==
    /\ cell = "np_where_power"
    /\ df.int_col = <<1, 2, 3>>
    /\ df.power = <<-1, 0, 1>>
    /\ raised = "ValueError"

\* C20: the filtering translation never raises for integer columns: after the
\* cell, powered is int_col ** power at every row with power >= 0 and int_col
\* at every row with power < 0, and the power expression has been evaluated on
\* the rows with power >= 0 only.
C20_FilteringNeverRaises ==
    cell = "filtering_power" =>
        /\ raised = "none"
        /\ evaluated = {k \in Index : df.power[k] >= 0}
        /\ \A k \in Index :
              df.powered[k] = IF df.power[k] >= 0
                              THEN IntPow(df.int_col[k], df.power[k])
                              ELSE df.int_col[k]

\* the dataframe of the notebook: powered = [1, 1, 3], the power evaluated on
\* the second and third row
C20_Witness ==
    /\ cell = "filtering_power"
    /\ df.int_col = <<1, 2, 3>>
    /\ df.power = <<-1, 0, 1>>
    /\ df.powered = <<1, 1, 3>>
    /\ evaluated = {2, 3}
    /\ raised = "none"

----------------------------------------------------------------------------
(* The bucket of an integer age *)

\* ages are held in thousandths: an integer age is a multiple of 1000
IsIntegerAge == age % Milli(1) = 0

\* the smallest multiple of 10 that is >= a, for an integer age a (thousandths)
DecadeUpperBound(a) == ((a + Milli(10) - 1) \div Milli(10)) * Milli(10)

\* C27: for every integer age a >= 0 the bucket is the smallest multiple of 10
\* that is >= a (0 -> 0, 1..10 -> 10, 11..20 -> 20), the upper bound of the
\* decade of the age and not the nearest multiple of 10; so 0 <= bucket - a <= 9
\* and the bucket of a is not below the bucket of a - 1, in all seven
\* expressions.
C27_BucketIsDecadeUpperBound ==
    (IsIntegerAge /\ AllEvaluated) =>
        /\ \A t \in Range(Tasks) :
              /\ bucket[t] = Some(DecadeUpperBound(age))
              /\ 0 <= Val(bucket[t]) - age
              /\ Val(bucket[t]) - age <= Milli(9)
        /\ age >= Milli(1) =>
              /\ Val(PandasAgeBucket(Some(age - Milli(1)))) <= Val(bucket["task_pandas"])
              /\ Val(SqlAgeBucket(Some(age - Milli(1)))) <= Val(bucket["task_sql"])

\* age 11 is put into bucket 20, not into the nearest multiple 10
C27_Witness ==
    /\ AllEvaluated
    /\ age = Milli(11)
    /\ bucket["task_pandas"] = Some(Milli(20))
    /\ bucket["task_sql"] = Some(Milli(20))

----------------------------------------------------------------------------
(* Properties of the flows *)

FinalStates == {"COMPLETED", "CACHE_VALID"}

AllFinal == \A n \in EntryNames(flow) : task_state[n] \in FinalStates

NoTaskFailed == \A n \in EntryNames(flow) : task_state[n] # "FAILED"

\* C21: a started flow.run() terminates, and if no task body raised, every
\* task and every stage commit is then in a final state (COMPLETED or
\* CACHE_VALID) and the result is successful
C21_RunTerminatesSuccessfully ==
    (pc > 0) ~> (/\ pc = 0
                 /\ NoTaskFailed => (flow_result = "successful" /\ AllFinal))

C21_Witness ==
    /\ flow = "part4"
    /\ pc = 0
    /\ flow_result = "successful"
    /\ AllFinal
    /\ task_state["04_evaluation"] = "COMPLETED"

\* the runs of the session that started on an empty cache and reached the
\* split
FreshSplitRuns ==
    {k \in 1..Len(history) : history[k].empty_cache /\ ~IsNull(history[k].split)}

\* C22: two runs of the part-4 flow from an empty cache on the same
\* train.csv.gz produce the same features_train, features_test, target_train
\* and target_test tables, that is the same test rows and the same train rows
C22_SplitIsReproducible ==
    \A k \in FreshSplitRuns : \A m \in FreshSplitRuns :
        Val(history[k].split) = Val(history[m].split)

\* the position of an entry in flow.tasks
Position(f, n) == CHOOSE k \in 1..Len(FlowTasks(f)) : FlowTasks(f)[k].name = n

\* the definition order is a topological order of the dependency graph:
\* every input of an entry stands before the entry
TopologicalOrder(f) ==
    \A k \in 1..Len(FlowTasks(f)) :
        \A i \in Range(FlowTasks(f)[k].inputs) : Position(f, i) < k

Started(n) == task_state[n] # "PENDING"

\* C23: in every run of the part-4 and part-7 flows a task has started only
\* if every task that produces one of its inputs has finished, and the
\* definition order of get_pipeline is a topological order of the dependency
\* graph (which is therefore acyclic)
C23_TaskStartsAfterItsInputs ==
    /\ TopologicalOrder(flow)
    /\ \A n \in TaskNames(flow) :
          Started(n) =>
              \A i \in Range(EntryOf(flow, n).inputs) : task_state[i] \in FinalStates

C23_Witness ==
    /\ flow = "part4"
    /\ task_state["evaluate_model"] = "COMPLETED"
    /\ task_state["train_model"] = "CACHE_VALID"
    /\ task_state["split_train_test"] = "CACHE_VALID"

StageNames(f) == EntryNames(f) \ TaskNames(f)

StageOf(n) == EntryOf(flow, n).stage

\* the stage has been committed in the current run
Committed(st) == task_state[st] = "COMPLETED"

\* a committed stage has all its tasks finished successfully, the stages
\* before it are committed, and a started task has every earlier stage
\* committed
CommitDiscipline ==
    /\ \A st \in StageNames(flow) :
          Committed(st) =>
              /\ \A n \in Range(EntryOf(flow, st).inputs) : task_state[n] \in FinalStates
              /\ \A before \in StageNames(flow) :
                    Position(flow, before) < Position(flow, st) => Committed(before)
    /\ \A n \in TaskNames(flow) :
          Started(n) =>
              \A st \in StageNames(flow) :
                  Position(flow, st) < Position(flow, n) => Committed(st)
    /\ \A n \in TaskNames(flow) :
          task_state[n] = "FAILED" => ~Committed(StageOf(n))

\* the content of a stage changes only in the step that commits the stage,
\* with all tasks of the stage finished successfully, or when the table store
\* is emptied before a run
VisibleOnlyOnCommit ==
    \A n \in TaskNames(flow) :
        cache'[n] # cache[n] =>
            \/ /\ pc = 0
               /\ pc' = 1
               /\ cache' = NoEntries(flow)
            \/ /\ ~Committed(StageOf(n))
               /\ task_state'[StageOf(n)] = "COMPLETED"
               /\ cache'[n] = staged[n]
               /\ \A m \in Range(EntryOf(flow, StageOf(n)).inputs) :
                     task_state[m] \in FinalStates

\* C24: a stage is committed only after all of its tasks have finished
\* successfully, stages are committed in their definition order, no task of
\* a later stage starts before the previous stage is committed, a stage in
\* which a task failed is never committed, and the content of a stage
\* changes only with its commit
C24_StageVisibleOnlyOnSuccess ==
    /\ []CommitDiscipline
    /\ [][VisibleOnlyOnCommit]_vars

\* a run that failed in 03_model after 01_raw_input and 02_features were
\* committed
C24_Witness ==
    /\ flow = "part4"
    /\ task_state["train_model"] = "FAILED"
    /\ Committed("02_features")
    /\ ~Committed("03_model")
    /\ ~IsNull(cache["split_train_test"])
    /\ IsNull(cache["train_model"])

IsPrint(e) == e.ev = "print"

\* what the run has written to stdout
Stdout == SelectSeq(log, IsPrint)

SuccessfulRun == pc = 0 /\ flow_result = "successful"

\* C25: every successful run of the part-7 flow has executed the body of
\* print_tables and printed the seven result tables in the order of the
\* tasks list, also when all tasks were found cache valid
C25_EverySuccessfulRunPrints ==
    (flow = "part7" /\ SuccessfulRun) =>
        Stdout = [k \in 1..Len(Tasks) |-> Event("print", Tasks[k])]

IsMaterialize(e) == e.ev = "materialize"

\* the current run, or the run that has just ended, is a rerun in which no
\* task's version and no task input changed since the previous run, which
\* was successful
UnchangedRerun == history # <<>> /\ history[Len(history)].unchanged

StagesReportedCacheValid ==
    {st \in StageNames(flow) :
        \E k \in 1..Len(log) : log[k] = Event("stage_cache_valid", st)}

CommittedStages == {st \in StageNames(flow) : Committed(st)}

====
